---- MODULE Spec2Model ----
(***************************************************************************)
(* Model of contacts_manager.py: an interactive contact manager keeping a  *)
(* list of contact dicts in memory and mirroring it into contact.csv.      *)
(*                                                                         *)
(* A Python str is a sequence of one-character strings.  A contact dict is *)
(* a record with the five FIELDNAMES keys.  Python object references       *)
(* (sorted_contacts, contact_to_edit, contact) are indices into contacts.  *)
(* One action is one input() call together with everything the program     *)
(* does until it blocks on the next input() call.                          *)
(***************************************************************************)
EXTENDS Integers, Sequences, FiniteSets, TLC

\* ------------------------------------------------------------------ bounds
\* Add is offered only while the collection holds fewer contacts than this
MaxContacts == 2
\* save_contacts() fails at most this many times in a row
MaxSaveFailures == 1
\* edit_contact sets at most this many fields in one run of the program
MaxEdits == 1

\* --------------------------------------------------------------- constants
FIELDNAMES == <<"first_name", "middle_name", "last_name", "number", "email">>
NumberLen == 10

\* ------------------------------------------------------- characters, str
Letters == {"a", "b", "c", "d", "l", "o", "y", "n",
            "A", "B", "C", "D", "L", "O", "Y", "N"}
Digits == {"0", "1", "2", "3", "4", "5", "6", "7", "8", "9"}

UpperOf == ("a" :> "A") @@ ("b" :> "B") @@ ("c" :> "C") @@ ("d" :> "D") @@
           ("l" :> "L") @@ ("o" :> "O") @@ ("y" :> "Y") @@ ("n" :> "N")
LowerOf == ("A" :> "a") @@ ("B" :> "b") @@ ("C" :> "c") @@ ("D" :> "d") @@
           ("L" :> "l") @@ ("O" :> "o") @@ ("Y" :> "y") @@ ("N" :> "n")

\* Unicode code points, the order Python compares str by.
CodePoint == (" " :> 32) @@ ("-" :> 45) @@ ("." :> 46) @@
             ("0" :> 48) @@ ("1" :> 49) @@ ("2" :> 50) @@ ("3" :> 51) @@
             ("4" :> 52) @@ ("5" :> 53) @@ ("6" :> 54) @@ ("7" :> 55) @@
             ("8" :> 56) @@ ("9" :> 57) @@ ("@" :> 64) @@
             ("A" :> 65) @@ ("B" :> 66) @@ ("C" :> 67) @@ ("D" :> 68) @@
             ("L" :> 76) @@ ("N" :> 78) @@ ("O" :> 79) @@ ("Y" :> 89) @@
             ("_" :> 95) @@
             ("a" :> 97) @@ ("b" :> 98) @@ ("c" :> 99) @@ ("d" :> 100) @@
             ("l" :> 108) @@ ("n" :> 110) @@ ("o" :> 111) @@ ("y" :> 121)

DigitValue == ("0" :> 0) @@ ("1" :> 1) @@ ("2" :> 2) @@ ("3" :> 3) @@
              ("4" :> 4) @@ ("5" :> 5) @@ ("6" :> 6) @@ ("7" :> 7) @@
              ("8" :> 8) @@ ("9" :> 9)

SetMin(S) == CHOOSE x \in S : \A y \in S : x <= y
SetMax(S) == CHOOSE x \in S : \A y \in S : x >= y

\* str.upper / str.lower on one character
UpperChar(c) == IF c \in DOMAIN UpperOf THEN UpperOf[c] ELSE c
LowerChar(c) == IF c \in DOMAIN LowerOf THEN LowerOf[c] ELSE c

\* str.lower()
Lower(s) == [i \in 1..Len(s) |-> LowerChar(s[i])]

\* str.strip(): drop leading and trailing whitespace, keep interior
Strip(s) ==
    LET keep == {i \in 1..Len(s) : s[i] # " "}
    IN  IF keep = {} THEN <<>> ELSE SubSeq(s, SetMin(keep), SetMax(keep))

\* str.title(): upper-case a letter that follows a non-letter, lower-case
\* a letter that follows a letter
Title(s) ==
    [i \in 1..Len(s) |->
        IF i = 1 \/ s[i - 1] \notin Letters
        THEN UpperChar(s[i]) ELSE LowerChar(s[i])]

\* str.isalpha(): non-empty and every character a letter
IsAlpha(s) == Len(s) > 0 /\ \A i \in 1..Len(s) : s[i] \in Letters

\* str.isdigit(): non-empty and every character a digit
IsDigit(s) == Len(s) > 0 /\ \A i \in 1..Len(s) : s[i] \in Digits

\* a < b on str: lexicographic by code point
StrLess(a, b) ==
    \E k \in 1..(Len(a) + 1) :
        /\ k <= Len(b)
        /\ \A j \in 1..(k - 1) : a[j] = b[j]
        /\ \/ k = Len(a) + 1
           \/ k <= Len(a) /\ CodePoint[a[k]] < CodePoint[b[k]]

\* int(s): the integer written by s (surrounding whitespace allowed),
\* or ValueError (no input of the model writes a negative number)
RECURSIVE DecimalValue(_)
DecimalValue(s) ==
    IF s = <<>> THEN 0
    ELSE 10 * DecimalValue(SubSeq(s, 1, Len(s) - 1)) + DigitValue[s[Len(s)]]

ValueError == -1
ParseInt(s) == IF IsDigit(Strip(s)) THEN DecimalValue(Strip(s)) ELSE ValueError

\* -------------------------------------------------------------- validators
validate_name(name, allow_blank) ==
    IF allow_blank /\ name = <<>> THEN TRUE ELSE IsAlpha(name)

validate_number(number) == IsDigit(number) /\ Len(number) = NumberLen

\* \w and [\w\.-] of the e-mail pattern
WordChar(c) == c \in Letters \cup Digits \cup {"_"}
LocalChar(c) == WordChar(c) \/ c \in {".", "-"}

\* re.match(r"^[\w\.-]+@[\w\.-]+\.\w+$", email): at is the "@", dot the
\* "." before the final \w+ segment
validate_email(email) ==
    \E at \in 2..Len(email), dot \in 1..(Len(email) - 1) :
        /\ email[at] = "@"
        /\ email[dot] = "."
        /\ dot > at + 1
        /\ \A k \in 1..(at - 1) : LocalChar(email[k])
        /\ \A k \in (at + 1)..(dot - 1) : LocalChar(email[k])
        /\ \A k \in (dot + 1)..Len(email) : WordChar(email[k])

\* ----------------------------------------------------------- contact dicts
\* f"{contact['first_name']} {contact['middle_name']} {contact['last_name']}".strip()
FullNameOf(first, middle, last) ==
    Strip(first \o <<" ">> \o middle \o <<" ">> \o last)

full_name_of(c) == FullNameOf(c.first_name, c.middle_name, c.last_name)

\* the sort key of the three listings
SortKey(c) == Lower(full_name_of(c))

\* sorted(contacts, key=...): a stable sort; the result holds references to
\* the dicts of contacts, here their indices
RankOf(cs, k) ==
    1 + Cardinality({j \in 1..Len(cs) :
            \/ StrLess(SortKey(cs[j]), SortKey(cs[k]))
            \/ SortKey(cs[j]) = SortKey(cs[k]) /\ j < k})

Sorted(cs) ==
    [r \in 1..Len(cs) |-> CHOOSE k \in 1..Len(cs) : RankOf(cs, k) = r]

\* list.remove(x): drops the first element equal (==) to x
ListRemove(cs, x) ==
    LET first == SetMin({j \in 1..Len(cs) : cs[j] = x})
    IN  SubSeq(cs, 1, first - 1) \o SubSeq(cs, first + 1, Len(cs))

\* csv.DictWriter.writerow / csv.DictReader row: dict <-> list of fields
WriteRow(c) == [i \in 1..Len(FIELDNAMES) |-> c[FIELDNAMES[i]]]
ReadRow(r) ==
    [first_name |-> r[1], middle_name |-> r[2], last_name |-> r[3],
     number |-> r[4], email |-> r[5]]

\* the mutant of WriteRows: only the newest row is written
WriteLastRow(cs) == [i \in 1..(IF cs = <<>> THEN 0 ELSE 1) |-> WriteRow(cs[Len(cs)])]

\* writer.writerows(contacts)
WriteRows(cs) == [i \in 1..Len(cs) |-> WriteRow(cs[i])]

\* the uniqueness tests of add_contact
NameExists(cs, full_name) ==
    \E j \in 1..Len(cs) : Lower(full_name_of(cs[j])) = Lower(full_name)

NumberExists(cs, n) == \E j \in 1..Len(cs) : cs[j].number = n

\* the mutant of EmailExists: e-mails compared as typed
EmailExistsExact(cs, e) == \E j \in 1..Len(cs) : cs[j].email = e

EmailExists(cs, e) == \E j \in 1..Len(cs) : Lower(cs[j].email) = Lower(e)

\* the mutant of NumberExistsElsewhere: only the contacts listed before the
\* edited one are looked at
NumberExistsBefore(cs, k, n) == \E j \in 1..(k - 1) : cs[j].number = n

\* the uniqueness tests of edit_contact: dicts are compared by value (!=)
NumberExistsElsewhere(cs, k, n) ==
    \E j \in 1..Len(cs) : cs[j].number = n /\ cs[j] # cs[k]

EmailExistsElsewhere(cs, k, e) ==
    \E j \in 1..Len(cs) : Lower(cs[j].email) = Lower(e) /\ cs[j] # cs[k]

\* the mutant of Confirmed: any answer starting with y confirms
ConfirmedByPrefix(answer) ==
    Len(Strip(answer)) > 0 /\ LowerChar(Strip(answer)[1]) = "y"

\* confirm = input(...).strip().lower(); confirm == "y"
Confirmed(answer) == Lower(Strip(answer)) = <<"y">>

\* print_contacts([selected]): the one table row shown
DisplayRow(c) == <<full_name_of(c), c.number, c.email>>

\* the mutant of SelectedContact: the index is taken in contacts itself
SelectedUnsorted(sorted, choice) == choice

\* sorted_contacts[choice - 1]
SelectedContact(sorted, choice) == sorted[choice]

\* ------------------------------------------------------------------ inputs
\* lines typed at the prompts
FirstInputs == { <<>>, <<"a", "l">>, <<" ", "A", "L", " ">> }
MiddleInputs == { <<>>, <<"a", "l">>, <<"a", "1">> }
LastInputs == { <<"b", "o">>, <<"b", "1">> }
NumberInputs ==
    { <<"0", "1", "2", "3", "4", "5", "6", "7", "8", "9">>,
      <<" ", "1", "1", "1", "1", "1", "1", "1", "1", "1", "1">>,
      <<"1", "2", "3", "4", "5">>,
      <<"1", "2", "3", "4", "5", "a", "b", "c", "d", "d">> }
EmailInputs ==
    { <<"a", "@", "b", ".", "c", "o">>,
      <<"A", "@", "b", ".", "c", "o">>,
      <<"c", "@", "d", ".", "c", "o", " ">>,
      <<"a", "@", "b">> }
ConfirmInputs == { <<"y">>, <<" ", "Y", " ">>, <<"n", "o">>, <<"y", "o">> }
ChoiceInputs ==
    { <<"0">>, <<"1">>, <<" ", "2">>, <<"3">>, <<"4">>, <<"5">>, <<"6">>,
      <<"n">> }

\* contact.csv as found on disk when the program starts
Absent == [exists |-> FALSE, header |-> <<>>, rows |-> <<>>]
HeaderOnly == [exists |-> TRUE, header |-> FIELDNAMES, rows |-> <<>>]
RowAlBo == << <<"A", "l">>, <<>>, <<"B", "o">>,
              <<"0", "1", "2", "3", "4", "5", "6", "7", "8", "9">>,
              <<"a", "@", "b", ".", "c", "o">> >>
RowAlAlBo == << <<"A", "l">>, <<"A", "l">>, <<"B", "o">>,
                <<"1", "1", "1", "1", "1", "1", "1", "1", "1", "1">>,
                <<"c", "@", "d", ".", "c", "o">> >>
NamePhoneFile ==
    [exists |-> TRUE, header |-> <<"name", "phone">>,
     rows |-> << << <<"A", "l">>, <<"1", "2", "3", "4", "5">> >> >>]
SwappedColumnsFile ==
    [exists |-> TRUE,
     header |-> <<"first_name", "middle_name", "last_name", "email", "number">>,
     rows |-> << RowAlBo >>]
EmptyFile == [exists |-> TRUE, header |-> <<>>, rows |-> <<>>]
StoredFile(rows) == [exists |-> TRUE, header |-> FIELDNAMES, rows |-> rows]

EmptyStartFiles == { Absent, HeaderOnly }
InitialFiles ==
    EmptyStartFiles \cup
    { NamePhoneFile, SwappedColumnsFile, EmptyFile,
      StoredFile(<<RowAlBo, RowAlAlBo>>),
      StoredFile(<<RowAlBo, RowAlAlBo, RowAlBo>>) }

\* ------------------------------------------------------------------- state
VARIABLES
    contacts,         \* the module-level list of contact dicts
    file,             \* contact.csv: [exists, header, rows]
    pc,               \* the input() call the program is blocked on
    first_name,       \* add_contact locals
    middle_name,
    last_name,
    number,
    sorted_contacts,  \* the listing of view/delete/edit: indices into contacts
    contact,          \* delete_contact: the dict selected, as its index
    contact_to_edit,  \* edit_contact: the dict selected, as its index
    inp,              \* the line the last input() call returned
    msg,              \* what the Record Store printed in the last step
    shown,            \* the table row print_contacts showed in the last step
    viewed,           \* the index typed for that row, 0 when none
    entered,          \* the Add under way or just done: [lines accepted, added]
    saveResult,       \* outcome of save_contacts() in the last step
    failures,         \* number of saves that failed since the last good one
    edits             \* number of fields edit_contact has set so far

vars == <<contacts, file, pc, first_name, middle_name, last_name, number,
          sorted_contacts, contact, contact_to_edit, inp, msg, shown, viewed,
          entered, saveResult, failures, edits>>

addLocals == <<first_name, middle_name, last_name, number>>
selection == <<sorted_contacts, contact, contact_to_edit>>
display == <<shown, viewed>>

NothingEntered == [lines |-> <<>>, added |-> FALSE]

Start(f) ==
    /\ contacts = <<>>
    /\ file = f
    /\ pc = "start"
    /\ first_name = <<>> /\ middle_name = <<>> /\ last_name = <<>>
    /\ number = <<>>
    /\ sorted_contacts = <<>> /\ contact = 0 /\ contact_to_edit = 0
    /\ inp = <<>> /\ msg = <<>> /\ shown = <<>> /\ viewed = 0
    /\ entered = NothingEntered
    /\ saveResult = "none" /\ failures = 0 /\ edits = 0

Init == \E f \in InitialFiles : Start(f)
InitEmpty == \E f \in EmptyStartFiles : Start(f)

\* ---------------------------------------------------------- Record Store
\* save_contacts(): rewrite the file from cs.  open(..., "w") may raise
\* PermissionError before touching the file; an IOError while writing leaves
\* the truncated file with the header and some of the rows.
SaveContacts(cs) ==
    \/ /\ file' = StoredFile(WriteRows(cs))
       /\ saveResult' = "ok"
       /\ msg' = <<"Changes saved.">>
       /\ failures' = 0
    \/ /\ failures < MaxSaveFailures
       /\ failures' = failures + 1
       /\ saveResult' = "failed"
       /\ msg' = <<"Error saving">>
       /\ \/ file' = file
          \/ \E n \in 0..(Len(cs) - 1) :
                file' = StoredFile(SubSeq(WriteRows(cs), 1, n))

\* a step that does not call save_contacts()
NoSave == saveResult' = "none" /\ msg' = <<>> /\ UNCHANGED <<file, failures>>

\* the mutant of HeaderMatches: the column names compared in any order
HeaderMatchesAnyOrder(f) ==
    {f.header[i] : i \in 1..Len(f.header)} =
    {FIELDNAMES[i] : i \in 1..Len(FIELDNAMES)}

\* reader.fieldnames != FIELDNAMES
HeaderMatches(f) == f.header = FIELDNAMES

\* load_contacts() applied to an existing file f
LoadContacts(f) ==
    \/ /\ HeaderMatches(f)
       /\ contacts' = [i \in 1..Len(f.rows) |-> ReadRow(f.rows[i])]
       /\ msg' = <<>>
    \/ /\ ~HeaderMatches(f)
       /\ contacts' = <<>>
       /\ msg' = <<"Invalid CSV format.">>
    \/ /\ contacts' = <<>>
       /\ msg' = <<"Error loading CSV">>

\* menu() up to its first prompt: init_contacts(), which creates a missing
\* file (outside any try) and then loads
InitContacts ==
    /\ pc = "start"
    /\ \/ /\ ~file.exists
          /\ file' = HeaderOnly
          /\ LoadContacts(HeaderOnly)
          /\ pc' = "menu"
       \/ /\ ~file.exists
          /\ UNCHANGED <<file, contacts>>
          /\ msg' = <<"Traceback">>
          /\ pc' = "crashed"
       \/ /\ file.exists
          /\ UNCHANGED file
          /\ LoadContacts(file)
          /\ pc' = "menu"
    /\ UNCHANGED <<addLocals, selection, inp, display, entered, saveResult,
                   failures, edits>>

\* ------------------------------------------------------- Interactive Shell
ToMenu ==
    /\ pc' = "menu"
    /\ first_name' = <<>> /\ middle_name' = <<>> /\ last_name' = <<>>
    /\ number' = <<>>
    /\ sorted_contacts' = <<>> /\ contact' = 0 /\ contact_to_edit' = 0

\* the listing each of view/delete/edit starts with
Listing(next) ==
    IF contacts = <<>>
    THEN /\ UNCHANGED <<pc, selection>>
    ELSE /\ sorted_contacts' = Sorted(contacts)
         /\ pc' = next
         /\ UNCHANGED <<contact, contact_to_edit>>

Menu ==
    /\ pc = "menu"
    /\ \E line \in ChoiceInputs :
        LET choice == ParseInt(line) IN
        /\ inp' = line
        /\ shown' = <<>> /\ viewed' = 0
        /\ IF choice = ValueError
           THEN /\ UNCHANGED <<pc, selection, entered>>
           ELSE CASE choice = 1 ->
                        /\ Len(contacts) < MaxContacts
                        /\ pc' = "add_first"
                        /\ entered' = NothingEntered
                        /\ UNCHANGED selection
                  [] choice = 2 ->
                        /\ Listing("view_index")
                        /\ UNCHANGED entered
                  [] choice = 3 ->
                        /\ Listing("delete_index")
                        /\ entered' = NothingEntered
                  [] choice = 4 ->
                        /\ Listing("edit_index")
                        /\ entered' = NothingEntered
                  [] choice = 5 ->
                        /\ pc' = "exit"
                        /\ UNCHANGED <<selection, entered>>
                  [] OTHER ->
                        /\ UNCHANGED <<pc, selection, entered>>
    /\ NoSave
    /\ UNCHANGED <<contacts, addLocals, edits>>

\* ----------------------------------------------------------- Add Operation
\* the mutant of AbortAdd: the same prompt asks for another value
AskAgain ==
    /\ NoSave
    /\ UNCHANGED <<contacts, edits, pc, addLocals, selection, entered>>

\* return from add_contact() before anything was appended
AbortAdd ==
    /\ entered' = NothingEntered
    /\ ToMenu
    /\ NoSave
    /\ UNCHANGED <<contacts, edits>>

AddFirstName ==
    /\ pc = "add_first"
    /\ \E line \in FirstInputs :
        LET name == Title(Strip(line)) IN
        /\ inp' = line
        /\ IF ~validate_name(name, FALSE)
           THEN /\ UNCHANGED <<pc, first_name, entered>>
           ELSE /\ first_name' = name
                /\ entered' = [entered EXCEPT !.lines = <<line>>]
                /\ pc' = "add_middle"
    /\ NoSave
    /\ UNCHANGED <<contacts, middle_name, last_name, number, selection,
                   display, edits>>

AddMiddleName ==
    /\ pc = "add_middle"
    /\ \E line \in MiddleInputs :
        LET name == Title(Strip(line)) IN
        /\ inp' = line
        /\ IF ~validate_name(name, TRUE)
           THEN /\ UNCHANGED <<pc, middle_name, entered>>
           ELSE /\ middle_name' = name
                /\ entered' = [entered EXCEPT !.lines = Append(@, line)]
                /\ pc' = "add_last"
    /\ NoSave
    /\ UNCHANGED <<contacts, first_name, last_name, number, selection,
                   display, edits>>

AddLastName ==
    /\ pc = "add_last"
    /\ \E line \in LastInputs :
        LET name == Title(Strip(line))
            full_name == FullNameOf(first_name, middle_name, name)
        IN
        /\ inp' = line
        /\ IF ~validate_name(name, FALSE)
           THEN /\ NoSave
                /\ UNCHANGED <<pc, contacts, addLocals, selection, entered,
                               edits>>
           ELSE IF NameExists(contacts, full_name)
           THEN AbortAdd
           ELSE /\ last_name' = name
                /\ entered' = [entered EXCEPT !.lines = Append(@, line)]
                /\ pc' = "add_number"
                /\ NoSave
                /\ UNCHANGED <<contacts, first_name, middle_name, number,
                               selection, edits>>
    /\ UNCHANGED display

AddNumber ==
    /\ pc = "add_number"
    /\ \E line \in NumberInputs :
        LET n == Strip(line) IN
        /\ inp' = line
        /\ IF ~validate_number(n)
           THEN /\ NoSave
                /\ UNCHANGED <<pc, contacts, addLocals, selection, entered,
                               edits>>
           ELSE IF NumberExists(contacts, n)
           THEN AbortAdd
           ELSE /\ number' = n
                /\ entered' = [entered EXCEPT !.lines = Append(@, line)]
                /\ pc' = "add_email"
                /\ NoSave
                /\ UNCHANGED <<contacts, first_name, middle_name, last_name,
                               selection, edits>>
    /\ UNCHANGED display

\* the new dict of contacts.append({...})
NewContact(email) ==
    [first_name |-> first_name, middle_name |-> middle_name,
     last_name |-> last_name, number |-> number, email |-> email]

AddEmail ==
    /\ pc = "add_email"
    /\ \E line \in EmailInputs :
        LET email == Strip(line) IN
        /\ inp' = line
        /\ IF ~validate_email(email)
           THEN /\ NoSave
                /\ UNCHANGED <<pc, contacts, addLocals, selection, entered,
                               edits>>
           ELSE IF EmailExists(contacts, email)
           THEN AbortAdd
           ELSE /\ contacts' = Append(contacts, NewContact(email))
                /\ SaveContacts(contacts')
                /\ entered' = [lines |-> Append(entered.lines, line), added |-> TRUE]
                /\ ToMenu
                /\ UNCHANGED edits
    /\ UNCHANGED display

\* ---------------------------------------------------------- View Operation
ViewIndex ==
    /\ pc = "view_index"
    /\ \E line \in ChoiceInputs :
        LET choice == ParseInt(line) IN
        /\ inp' = line
        /\ IF choice = ValueError
           THEN /\ UNCHANGED <<pc, addLocals, selection, display>>
           ELSE IF 1 <= choice /\ choice <= Len(sorted_contacts)
           THEN /\ shown' =
                    DisplayRow(contacts[SelectedContact(sorted_contacts, choice)])
                /\ viewed' = choice
                /\ ToMenu
           ELSE /\ UNCHANGED <<pc, addLocals, selection, display>>
    /\ NoSave
    /\ UNCHANGED <<contacts, entered, edits>>

\* -------------------------------------------------------- Delete Operation
DeleteIndex ==
    /\ pc = "delete_index"
    /\ \E line \in ChoiceInputs :
        LET choice == ParseInt(line) IN
        /\ inp' = line
        /\ IF choice = ValueError
           THEN /\ UNCHANGED <<pc, contact>>
           ELSE IF 1 <= choice /\ choice <= Len(sorted_contacts)
           THEN /\ contact' = SelectedContact(sorted_contacts, choice)
                /\ pc' = "delete_confirm"
           ELSE /\ UNCHANGED <<pc, contact>>
    /\ NoSave
    /\ UNCHANGED <<contacts, addLocals, sorted_contacts, contact_to_edit,
                   display, entered, edits>>

DeleteConfirm ==
    /\ pc = "delete_confirm"
    /\ \E line \in ConfirmInputs :
        /\ inp' = line
        /\ IF Confirmed(line)
           THEN /\ contacts' = ListRemove(contacts, contacts[contact])
                /\ SaveContacts(contacts')
           ELSE /\ NoSave
                /\ UNCHANGED contacts
    /\ ToMenu
    /\ UNCHANGED <<display, entered, edits>>

\* ---------------------------------------------------------- Edit Operation
EditIndex ==
    /\ pc = "edit_index"
    /\ \E line \in ChoiceInputs :
        LET choice == ParseInt(line) IN
        /\ inp' = line
        /\ IF choice = ValueError
           THEN /\ ToMenu
           ELSE IF 1 <= choice /\ choice <= Len(sorted_contacts)
           THEN /\ contact_to_edit' = SelectedContact(sorted_contacts, choice)
                /\ pc' = "edit_choice"
                /\ UNCHANGED <<addLocals, sorted_contacts, contact>>
           ELSE /\ ToMenu
    /\ NoSave
    /\ UNCHANGED <<contacts, display, entered, edits>>

\* the prompt each option of the field menu leads to
FieldPrompt ==
    (1 :> "edit_first") @@ (2 :> "edit_middle") @@ (3 :> "edit_last") @@
    (4 :> "edit_number") @@ (5 :> "edit_email")

EditChoice ==
    /\ pc = "edit_choice"
    /\ \E line \in ChoiceInputs :
        LET option == ParseInt(line) IN
        /\ inp' = line
        /\ IF option = ValueError
           THEN /\ NoSave
                /\ UNCHANGED <<pc, addLocals, selection>>
           ELSE IF option \in DOMAIN FieldPrompt
           THEN /\ pc' = FieldPrompt[option]
                /\ NoSave
                /\ UNCHANGED <<addLocals, selection>>
           ELSE IF option = 6
           THEN /\ SaveContacts(contacts)
                /\ ToMenu
           ELSE /\ NoSave
                /\ UNCHANGED <<pc, addLocals, selection>>
    /\ UNCHANGED <<contacts, display, entered, edits>>

\* contact_to_edit[field] = value; save_contacts()
SetField(field, value) ==
    /\ edits < MaxEdits
    /\ edits' = edits + 1
    /\ contacts' = [contacts EXCEPT ![contact_to_edit][field] = value]
    /\ SaveContacts(contacts')

\* an edit that printed an error and changed nothing
RejectEdit ==
    /\ NoSave
    /\ UNCHANGED <<contacts, edits>>

\* the top of the field menu's while True loop, reached when the loop body
\* runs to its end
BackToFieldMenu ==
    /\ pc' = "edit_choice"
    /\ UNCHANGED <<addLocals, selection, display, entered>>

\* the mutant of RejectAndContinue: the same field is asked for again
RejectAndAskAgain ==
    /\ RejectEdit
    /\ UNCHANGED <<pc, addLocals, selection, display, entered>>

\* print(...); continue in the number and email branches: the error, then
\* the top of the same while True loop
RejectAndContinue ==
    /\ RejectEdit
    /\ BackToFieldMenu

EditFirstName ==
    /\ pc = "edit_first"
    /\ \E line \in FirstInputs :
        LET new_first == Title(Strip(line)) IN
        /\ inp' = line
        /\ IF validate_name(new_first, FALSE)
           THEN SetField("first_name", new_first)
           ELSE RejectEdit
    /\ BackToFieldMenu

EditMiddleName ==
    /\ pc = "edit_middle"
    /\ \E line \in MiddleInputs :
        LET new_middle == Title(Strip(line)) IN
        /\ inp' = line
        /\ IF new_middle = <<>> \/ validate_name(new_middle, FALSE)
           THEN SetField("middle_name", new_middle)
           ELSE RejectEdit
    /\ BackToFieldMenu

EditLastName ==
    /\ pc = "edit_last"
    /\ \E line \in LastInputs :
        LET new_last == Title(Strip(line)) IN
        /\ inp' = line
        /\ IF validate_name(new_last, FALSE)
           THEN SetField("last_name", new_last)
           ELSE RejectEdit
    /\ BackToFieldMenu

EditNumber ==
    /\ pc = "edit_number"
    /\ \E line \in NumberInputs :
        LET new_number == Strip(line) IN
        /\ inp' = line
        /\ IF ~validate_number(new_number)
           THEN RejectAndContinue
           ELSE IF NumberExistsElsewhere(contacts, contact_to_edit, new_number)
           THEN RejectAndContinue
           ELSE SetField("number", new_number) /\ BackToFieldMenu

EditEmail ==
    /\ pc = "edit_email"
    /\ \E line \in EmailInputs :
        LET new_email == Strip(line) IN
        /\ inp' = line
        /\ IF ~validate_email(new_email)
           THEN RejectAndContinue
           ELSE IF EmailExistsElsewhere(contacts, contact_to_edit, new_email)
           THEN RejectAndContinue
           ELSE SetField("email", new_email) /\ BackToFieldMenu

\* ----------------------------------------------------------- specification
Next ==
    \/ InitContacts
    \/ Menu
    \/ AddFirstName
    \/ AddMiddleName
    \/ AddLastName
    \/ AddNumber
    \/ AddEmail
    \/ ViewIndex
    \/ DeleteIndex
    \/ DeleteConfirm
    \/ EditIndex
    \/ EditChoice
    \/ EditFirstName
    \/ EditMiddleName
    \/ EditLastName
    \/ EditNumber
    \/ EditEmail

\* any contact.csv on disk at start
Spec == Init /\ [][Next]_vars

\* contact.csv absent or holding only the header at start
SpecEmpty == InitEmpty /\ [][Next]_vars

\* ================================================================== claims
\* the rows of file f are the contacts cs, in order, field by field
MirrorOf(f, cs) ==
    /\ f.exists
    /\ f.header = FIELDNAMES
    /\ Len(f.rows) = Len(cs)
    /\ \A i \in 1..Len(cs) : \A k \in 1..Len(FIELDNAMES) :
            f.rows[i][k] = cs[i][FIELDNAMES[k]]

\* cs without its k-th element
RemoveAt(cs, k) == SubSeq(cs, 1, k - 1) \o SubSeq(cs, k + 1, Len(cs))

\* s with its first letter upper-case and the others lower-case
TitleCase(s) ==
    [i \in 1..Len(s) |-> IF i = 1 THEN UpperChar(s[i]) ELSE LowerChar(s[i])]

OthersOf(k) == (1..Len(contacts)) \ {k}

\* ------------------------------------------------------------------- C1
\* C1: from an empty start, after every step no two distinct contacts have
\* the same number, and an Edit whose new number is held by a different
\* contact leaves the contacts as they were.
C1_UniqueNumbers ==
    [][ /\ \A i, j \in 1..Len(contacts') :
              i # j => contacts'[i].number # contacts'[j].number
        /\ (/\ pc = "edit_number"
            /\ \E j \in OthersOf(contact_to_edit) :
                    contacts[j].number = Strip(inp'))
           => contacts' = contacts ]_vars

\* an Edit of a number was refused because the other contact holds it
C1_Witness ==
    /\ pc = "edit_choice"
    /\ Len(contacts) = 2
    /\ validate_number(Strip(inp))
    /\ contacts[contact_to_edit].number # Strip(inp)
    /\ \E j \in OthersOf(contact_to_edit) : contacts[j].number = Strip(inp)

\* ------------------------------------------------------------------- C2
\* C2: from an empty start, after every step no two distinct contacts have
\* e-mails equal up to letter case; an Add or an Edit whose e-mail equals,
\* up to case, the e-mail of an existing (other) contact changes nothing.
C2_UniqueEmails ==
    [][ /\ \A i, j \in 1..Len(contacts') :
              i # j => Lower(contacts'[i].email) # Lower(contacts'[j].email)
        /\ (/\ pc = "add_email"
            /\ \E j \in 1..Len(contacts) :
                    Lower(contacts[j].email) = Lower(Strip(inp')))
           => contacts' = contacts
        /\ (/\ pc = "edit_email"
            /\ \E j \in OthersOf(contact_to_edit) :
                    Lower(contacts[j].email) = Lower(Strip(inp')))
           => contacts' = contacts ]_vars

\* an Add was refused for an e-mail that differs from an existing one only
\* in letter case
C2_Witness ==
    /\ pc = "menu"
    /\ validate_email(Strip(inp))
    /\ \E j \in 1..Len(contacts) :
          /\ contacts[j].email # Strip(inp)
          /\ Lower(contacts[j].email) = Lower(Strip(inp))

\* ------------------------------------------------------------------- C3
\* C3: from an empty start, no two distinct contacts have the same full
\* name (first, middle, last joined by spaces, trimmed, compared without
\* regard to case).
C3_UniqueFullNames ==
    \A i, j \in 1..Len(contacts) :
        i # j => Lower(full_name_of(contacts[i])) # Lower(full_name_of(contacts[j]))

\* ------------------------------------------------------------------- C4
\* the line just read completes an Add that collides with an existing contact
AddConflict ==
    \/ /\ pc = "add_last"
       /\ validate_name(Title(Strip(inp')), FALSE)
       /\ \E j \in 1..Len(contacts) :
             Lower(full_name_of(contacts[j])) =
             Lower(FullNameOf(first_name, middle_name, Title(Strip(inp'))))
    \/ /\ pc = "add_number"
       /\ validate_number(Strip(inp'))
       /\ \E j \in 1..Len(contacts) : contacts[j].number = Strip(inp')
    \/ /\ pc = "add_email"
       /\ validate_email(Strip(inp'))
       /\ \E j \in 1..Len(contacts) :
             Lower(contacts[j].email) = Lower(Strip(inp'))

\* C4: an Add that hits a full-name, number or e-mail conflict returns to
\* the main menu at once, with the contacts and the file as they were and
\* no save.
C4_AddConflictAborts ==
    [][ AddConflict =>
            /\ pc' = "menu"
            /\ contacts' = contacts
            /\ file' = file
            /\ saveResult' = "none" ]_vars

\* an Add was abandoned at the number prompt: the number typed is taken
C4_Witness ==
    /\ pc = "menu"
    /\ validate_number(Strip(inp))
    /\ \E j \in 1..Len(contacts) : contacts[j].number = Strip(inp)
    /\ MirrorOf(file, contacts)

\* ------------------------------------------------------------------- C5
\* C5 as stated: a confirmation answer other than "y", compared without
\* regard to case, leaves the contacts and the file unchanged.
C5_AnyOtherAnswerCancels ==
    [][ (pc = "delete_confirm" /\ Lower(inp') # <<"y">>)
            => (contacts' = contacts /\ file' = file) ]_vars

\* C5 amended: a confirmation answer that is not "y" once surrounding
\* whitespace is trimmed and case is ignored leaves the contacts and the
\* file unchanged, and nothing is saved.
C5_OtherAnswerCancels ==
    [][ (pc = "delete_confirm" /\ Lower(Strip(inp')) # <<"y">>)
            => /\ contacts' = contacts
               /\ file' = file
               /\ saveResult' = "none"
               /\ pc' = "menu" ]_vars

\* a deletion was declined
C5_Witness ==
    /\ pc = "menu"
    /\ inp \in ConfirmInputs
    /\ Lower(Strip(inp)) # <<"y">>
    /\ contacts # <<>>

\* ------------------------------------------------------------------- C6
\* the line just read is refused by the number or the e-mail edit
NumberEditFails ==
    /\ pc = "edit_number"
    /\ \/ ~validate_number(Strip(inp'))
       \/ \E j \in OthersOf(contact_to_edit) :
             /\ contacts[j].number = Strip(inp')
             /\ contacts[j] # contacts[contact_to_edit]

EmailEditFails ==
    /\ pc = "edit_email"
    /\ \/ ~validate_email(Strip(inp'))
       \/ \E j \in OthersOf(contact_to_edit) :
             /\ Lower(contacts[j].email) = Lower(Strip(inp'))
             /\ contacts[j] # contacts[contact_to_edit]

\* the line just read is refused by a name edit
NameEditFails ==
    \/ pc = "edit_first" /\ ~IsAlpha(Title(Strip(inp')))
    \/ pc = "edit_middle" /\ Strip(inp') # <<>> /\ ~IsAlpha(Title(Strip(inp')))
    \/ pc = "edit_last" /\ ~IsAlpha(Title(Strip(inp')))

\* C6 as stated: a refused number or e-mail is followed by the prompt for
\* the same field, a refused name by the field-choice menu.
C6_SameFieldAskedAgain ==
    [][ /\ (NumberEditFails \/ EmailEditFails) => pc' = pc
        /\ NameEditFails => pc' = "edit_choice" ]_vars

\* C6 amended: a refused number or e-mail, like a refused name, is followed
\* by the field-choice menu, and the contact is left as it was.
C6_FieldMenuAskedAgain ==
    [][ (NumberEditFails \/ EmailEditFails \/ NameEditFails)
            => (pc' = "edit_choice" /\ contacts' = contacts) ]_vars

\* a number edit was refused and the field-choice menu is prompting
C6_Witness ==
    /\ pc = "edit_choice"
    /\ inp \in NumberInputs
    /\ \/ ~validate_number(Strip(inp))
       \/ contacts[contact_to_edit].number # Strip(inp)

\* ------------------------------------------------------------------- C7
\* C7: a step that changes the contacts also rewrites the file, and
\* whenever a step's save succeeded, in particular when it leaves the main
\* menu prompting, the rows of the file are the contacts, in order and
\* field by field.
C7_FileMirrorsContacts ==
    [][ /\ (pc # "start" /\ contacts' # contacts) => saveResult' # "none"
        /\ saveResult' = "ok" => MirrorOf(file', contacts') ]_vars

\* the main menu prompts after a successful save of two contacts
C7_Witness ==
    /\ pc = "menu"
    /\ saveResult = "ok"
    /\ Len(contacts) = 2
    /\ MirrorOf(file, contacts)

\* ------------------------------------------------------------------- C8
\* C8: loading an existing file whose header is not the five FIELDNAMES
\* leaves the contacts empty and the file untouched, and goes on to the
\* main menu; what is reported is the format error (or, when the file
\* cannot be read at all, the read error).
C8_BadHeaderLoadsNothing ==
    [][ (pc = "start" /\ file.exists /\ file.header # FIELDNAMES)
            => /\ contacts' = <<>>
               /\ file' = file
               /\ pc' = "menu"
               /\ msg' \in { <<"Invalid CSV format.">>, <<"Error loading CSV">> }
      ]_vars

\* the name,phone file was loaded and refused
C8_Witness ==
    /\ pc = "menu"
    /\ file = NamePhoneFile
    /\ contacts = <<>>
    /\ msg = <<"Invalid CSV format.">>

\* ------------------------------------------------------------------- C9
\* the row just shown is the row of the contact the last Add appended,
\* picked by its index in the sorted listing, and the five lines typed for
\* it pass the validators as typed
ViewedTheAdded ==
    /\ pc = "menu"
    /\ entered.added
    /\ viewed # 0
    /\ viewed = RankOf(contacts, Len(contacts))
    /\ validate_name(entered.lines[1], FALSE)
    /\ validate_name(entered.lines[2], TRUE)
    /\ validate_name(entered.lines[3], FALSE)
    /\ validate_number(entered.lines[4])
    /\ validate_email(entered.lines[5])

\* C9 as stated: View shows exactly the values typed.
C9_ViewShowsEntered ==
    ViewedTheAdded =>
        shown = << FullNameOf(entered.lines[1], entered.lines[2],
                              entered.lines[3]),
                   entered.lines[4], entered.lines[5] >>

\* C9 amended: View shows the number and the e-mail typed, and the names
\* typed put in title case.
C9_ViewShowsTitleCased ==
    ViewedTheAdded =>
        shown = << FullNameOf(TitleCase(entered.lines[1]),
                              TitleCase(entered.lines[2]),
                              TitleCase(entered.lines[3])),
                   entered.lines[4], entered.lines[5] >>

\* a contact typed in lower case was added second and viewed
C9_Witness ==
    /\ ViewedTheAdded
    /\ Len(contacts) = 2
    /\ viewed = 1
    /\ entered.lines[1] # TitleCase(entered.lines[1])

\* ------------------------------------------------------------------ C10
\* C10: a confirmed Delete of index i removes the contact at position i of
\* the listing sorted by case-insensitive full name, and nothing else.
C10_DeleteRemovesSelected ==
    [][ (pc = "delete_confirm" /\ Lower(Strip(inp')) = <<"y">>)
            => \E k \in 1..Len(contacts) :
                  /\ RankOf(contacts, k) = ParseInt(inp)
                  /\ contacts' = RemoveAt(contacts, k) ]_vars
====
